---- MODULE Spec2Model ----
(***************************************************************************)
(* Model of adequacaoequatorial.py: the Streamlit handler that reads an    *)
(* Excel table, folds its rows into a KML tree grouped by folder and       *)
(* offers the pretty-printed XML for download.                             *)
(*                                                                         *)
(* A Python str is a sequence of Unicode code points, a bytes object a     *)
(* sequence of numbers 0..255.  Str("...") writes the str of a printable   *)
(* ASCII literal.                                                          *)
(*                                                                         *)
(* A Python float is a record [k, sg, digits, decpt]:                      *)
(*   k = "fin": sg * 0.d1d2...dn * 10^decpt, digits = <<d1, ..., dn>>      *)
(*              being the digits of repr(), without leading or trailing    *)
(*              zeros; the two zeros have digits = <<>>;                   *)
(*   k = "inf": sg * infinity;   k = "nan": not-a-number.                  *)
(***************************************************************************)
EXTENDS Integers, Sequences, FiniteSets, TLC

(***************************************************************************)
(* Bounds of the model.                                                    *)
(***************************************************************************)
MaxRows == 3

(***************************************************************************)
(* Program constant: the minimum number of columns (line 36).              *)
(***************************************************************************)
MinCols == 9

(***************************************************************************)
(* Text.                                                                   *)
(***************************************************************************)
AsciiLo == " !\"#$%&'()*+,-./0123456789:;<=>?@ABCDEFGHIJKLMNOPQRSTUVWXYZ[\\]^_"

AsciiHi == "abcdefghijklmnopqrstuvwxyz{|}~"

\* ord(c) of a printable ASCII character other than the grave accent.
Ord(c) ==
  IF \E i \in 1..Len(AsciiLo) : SubSeq(AsciiLo, i, i) = c
  THEN 31 + (CHOOSE i \in 1..Len(AsciiLo) : SubSeq(AsciiLo, i, i) = c)
  ELSE 96 + (CHOOSE i \in 1..Len(AsciiHi) : SubSeq(AsciiHi, i, i) = c)

\* The str of a literal.
Str(s) == [i \in 1..Len(s) |-> Ord(SubSeq(s, i, i))]

Min(S) == CHOOSE x \in S : \A y \in S : x <= y

Max(S) == CHOOSE x \in S : \A y \in S : x >= y

\* The concatenation of the sequences of xs.
RECURSIVE Flatten(_)
Flatten(xs) ==
  IF Len(xs) = 0 THEN <<>>
  ELSE IF Len(xs) = 1 THEN xs[1]
  ELSE LET h == Len(xs) \div 2
       IN  Flatten(SubSeq(xs, 1, h)) \o Flatten(SubSeq(xs, h + 1, Len(xs)))

\* The decimal digits of a natural number, most significant first.
RECURSIVE IntDigits(_)
IntDigits(n) ==
  IF n < 10 THEN <<n>> ELSE Append(IntDigits(n \div 10), n % 10)

\* The text of a sequence of decimal digits.
DigitText(ds) == [i \in 1..Len(ds) |-> 48 + ds[i]]

\* str(n) of a natural number.
IntText(n) == DigitText(IntDigits(n))

\* The first position of code point c in s, or 0.
Find(s, c) ==
  LET at == {i \in 1..Len(s) : s[i] = c}
  IN  IF at = {} THEN 0 ELSE Min(at)

(***************************************************************************)
(* float(str): the characters.                                             *)
(***************************************************************************)
\* The code points of the digit zero of every Unicode decimal digit run.
DecimalZeros ==
  {48, 1632, 1776, 1984, 2406, 2534, 2662, 2790, 2918, 3046, 3174, 3302,
   3430, 3558, 3664, 3792, 3872, 4160, 4240, 6112, 6160, 6470, 6608, 6784,
   6800, 6992, 7088, 7232, 7248, 42528, 43216, 43264, 43472, 43504, 43600,
   44016, 65296, 66720, 68912, 69734, 69872, 69942, 70096, 70384, 70736,
   70864, 71248, 71360, 71472, 71904, 72016, 72784, 73040, 73120, 92768,
   92864, 93008, 120782, 120792, 120802, 120812, 120822, 123200, 123632,
   125264, 130032}

\* The character is a decimal digit (Unicode category Nd).
IsDecimal(c) == \E z \in DecimalZeros : z <= c /\ c <= z + 9

\* The value of a decimal digit.
ToDecimal(c) == c - (CHOOSE z \in DecimalZeros : z <= c /\ c <= z + 9)

IsAsciiDigit(c) == 48 <= c /\ c <= 57

\* float() first rewrites the str: ASCII stays, whitespace above ASCII (the
\* set below) becomes a space, a decimal digit becomes its ASCII digit, and
\* the str is cut short with a question mark at the first character that is
\* none of these.
TransformCh(c) ==
  IF c < 128 THEN c
  ELSE IF c \in {133, 160, 5760, 8232, 8233, 8239, 8287, 12288}
                \cup (8192..8202) THEN 32
  ELSE IF IsDecimal(c) THEN 48 + ToDecimal(c)
  ELSE 63

TransformDecimalAndSpaceToASCII(s) ==
  LET bad == {i \in 1..Len(s) : s[i] >= 128 /\ TransformCh(s[i]) = 63}
      n   == IF bad = {} THEN Len(s) ELSE Min(bad)
  IN  [i \in 1..n |-> TransformCh(s[i])]

\* The str without its leading and trailing ASCII whitespace: tab, line
\* feed, vertical tab, form feed, carriage return and space.
StripAsciiSpace(s) ==
  LET keep == {i \in 1..Len(s) : s[i] \notin {9, 10, 11, 12, 13, 32}}
  IN  IF keep = {} THEN <<>> ELSE SubSeq(s, Min(keep), Max(keep))

\* ASCII lower-casing, as the matching of "inf", "nan" and of the exponent
\* mark does it.
Lower(s) ==
  [i \in 1..Len(s) |-> IF 65 <= s[i] /\ s[i] <= 90 THEN s[i] + 32 ELSE s[i]]

\* Underscores are accepted only between two digits; they are then dropped.
UnderscoresOk(s) ==
  {i \in 1..Len(s) :
     /\ s[i] = 95
     /\ ~(/\ i > 1 /\ i < Len(s)
          /\ IsAsciiDigit(s[i - 1])
          /\ IsAsciiDigit(s[i + 1]))} = {}

DropUnderscores(s) == SelectSeq(s, LAMBDA c : c # 95)

AllDigits(s) == {i \in 1..Len(s) : ~IsAsciiDigit(s[i])} = {}

(***************************************************************************)
(* Natural numbers of any size, as the exact arithmetic of float() and     *)
(* repr() needs them: the sequence of the digits to the base 10000, least  *)
(* significant first, the last one not zero; <<>> is 0.  Next to it a      *)
(* number is the sequence of its decimal digits, most significant first,   *)
(* the first one not zero; <<>> is 0 again.                                *)
(***************************************************************************)
Base == 10000

ZeroDigits(n) == [i \in 1..n |-> 0]

\* The number of a sequence of decimal digits.
BigFromDigits(ds) ==
  LET n    == Len(ds)
      D(i) == IF i >= 1 THEN ds[i] ELSE 0
  IN  [j \in 1..((n + 3) \div 4) |->
         LET p == n - (4 * (j - 1))
         IN  D(p) + (10 * D(p - 1)) + (100 * D(p - 2)) + (1000 * D(p - 3))]

\* The decimal digits of a number.
BigToDigits(a) ==
  LET n   == Len(a)
      all == [i \in 1..(4 * n) |->
                (a[n - ((i - 1) \div 4)] \div (10 ^ (3 - ((i - 1) % 4)))) % 10]
      nz  == {i \in 1..Min({4, 4 * n}) : all[i] # 0}
  IN  IF n = 0 THEN <<>> ELSE SubSeq(all, Min(nz), 4 * n)

\* The digits of a lower part L and of the part H above it.
MulJoin(L, H) == [s |-> L.s \o H.s, c |-> H.c]

\* The digits lo..hi of a * k + c and the carry out of them: the lower half
\* of them first, the upper half with the carry out of the lower one.
RECURSIVE MulLimbs(_, _, _, _, _)
RECURSIVE MulUpper(_, _, _, _, _)
MulLimbs(a, k, lo, hi, c) ==
  IF lo > hi THEN [s |-> <<>>, c |-> c]
  ELSE IF lo = hi
  THEN [s |-> <<((a[lo] * k) + c) % Base>>, c |-> ((a[lo] * k) + c) \div Base]
  ELSE MulUpper(a, k, ((lo + hi) \div 2) + 1, hi,
                MulLimbs(a, k, lo, (lo + hi) \div 2, c))

MulUpper(a, k, lo, hi, L) == MulJoin(L, MulLimbs(a, k, lo, hi, L.c))

\* The digits r.s with the carry r.c < Base^2 on top of them.
MulResult(r) ==
  IF r.c = 0 THEN r.s
  ELSE IF r.c < Base THEN Append(r.s, r.c)
  ELSE r.s \o <<r.c % Base, r.c \div Base>>

\* a * k for 0 < k < 2^17.
BigMulSmall(a, k) == MulResult(MulLimbs(a, k, 1, Len(a), 0))

\* The powers of 2 and of 5 are multiplied in by this many factors at a time.
PowChunk == 7

\* a * p^k for p = 2 or 5: by one half of the factors, then by the other.
RECURSIVE BigMulPow(_, _, _)
BigMulPow(a, p, k) ==
  IF a = <<>> THEN a
  ELSE IF k <= PowChunk THEN BigMulSmall(a, p ^ k)
  ELSE BigMulPow(BigMulPow(a, p, k \div 2), p, k - (k \div 2))

\* 0.a < 0.b for two sequences of digits.
FracLess(a, b) ==
  LET n    == IF Len(a) > Len(b) THEN Len(a) ELSE Len(b)
      A(i) == IF i <= Len(a) THEN a[i] ELSE 0
      B(i) == IF i <= Len(b) THEN b[i] ELSE 0
      diff == {i \in 1..n : A(i) # B(i)}
      p    == Min(diff)
  IN  diff # {} /\ A(p) < B(p)

\* a < b for two numbers in decimal digits.
LessInt(a, b) == IF Len(a) # Len(b) THEN Len(a) < Len(b) ELSE FracLess(a, b)

\* a + 1 in decimal digits.
Increment(ds) ==
  LET low == {i \in 1..Len(ds) : ds[i] # 9}
      p   == Max(low)
  IN  IF low = {} THEN <<1>> \o ZeroDigits(Len(ds))
      ELSE [i \in 1..Len(ds) |->
              IF i < p THEN ds[i] ELSE IF i = p THEN ds[i] + 1 ELSE 0]

\* a - 1 in decimal digits, for a > 0: the first digit goes when it becomes 0.
Decrement(ds) ==
  LET nz == {i \in 1..Len(ds) : ds[i] # 0}
      p  == Max(nz)
      r  == [i \in 1..Len(ds) |->
               IF i < p THEN ds[i] ELSE IF i = p THEN ds[i] - 1 ELSE 9]
  IN  IF r[1] = 0 THEN Tail(r) ELSE r

IsOdd(ds) == ds # <<>> /\ ds[Len(ds)] % 2 = 1

(***************************************************************************)
(* Python floats.                                                          *)
(***************************************************************************)
\* A decimal of at most this many significant digits in the normal range is
\* the shortest repr() of the double nearest to it.
ExactDigits == 15

\* Decimals 0.d1... * 10^decpt with decpt above this are beyond every double.
MaxDecpt == 309

\* Decimals with decpt from this on are in the normal range of doubles.
MinNormalDecpt == 0 - 306

\* Decimals with decpt below this are nearer to zero than to any other double.
MinDecpt == 0 - 323

\* A double is m * 2^q with m < 2^53 and q >= MinExponent; m >= 2^52 for
\* the doubles with q > MinExponent.
MantissaBits == 53

MinExponent == 0 - 1074

\* 2^52 and 2^53
TwoTo52 == <<4, 5, 0, 3, 5, 9, 9, 6, 2, 7, 3, 7, 0, 4, 9, 6>>

TwoTo53 == <<9, 0, 0, 7, 1, 9, 9, 2, 5, 4, 7, 4, 0, 9, 9, 2>>

\* The digits of 2^1024 - 2^970: decimals from it on round to infinity.
OverflowText ==
  Str("17976931348623158079372897140530341507993413271003782693617377898044")
  \o Str("4968292764750946649017977587207096330286416692887910946555547851940")
  \o Str("4026306574886715058206819089020007083836762738548458177115317644757")
  \o Str("3027006985557136695962284291481986083493647529271907416844436551070")
  \o Str("4342711559699508093042880177904174497792")

OverflowDigits == [i \in 1..Len(OverflowText) |-> OverflowText[i] - 48]

Fin(sg, digits, decpt) ==
  [k |-> "fin", sg |-> sg, digits |-> digits, decpt |-> decpt]

Zero(sg) == Fin(sg, <<>>, 0)

Inf(sg) == [k |-> "inf", sg |-> sg, digits |-> <<>>, decpt |-> 0]

NaN == [k |-> "nan", sg |-> 1, digits |-> <<>>, decpt |-> 0]

IsFinite(f) == f.k = "fin"

\* The decimal 0.d1...dn * 10^decpt is 2^1024 - 2^970 or more.
Overflows(digits, decpt) ==
  decpt > MaxDecpt \/ (decpt = MaxDecpt /\ ~FracLess(digits, OverflowDigits))

\* The digits of ds without the zeros at their end.
StripZeros(ds) ==
  LET nz == {i \in 1..Len(ds) : ds[i] # 0}
  IN  IF nz = {} THEN <<>> ELSE SubSeq(ds, 1, Max(nz))

\* The number w * 10^s in decimal digits: its whole part and the digits
\* after its decimal point.
Shifted(w, s) ==
  IF s >= 0 THEN [whole |-> w \o ZeroDigits(s), frac |-> <<>>]
  ELSE IF Len(w) + s <= 0
  THEN [whole |-> <<>>, frac |-> ZeroDigits(0 - s - Len(w)) \o w]
  ELSE [whole |-> SubSeq(w, 1, Len(w) + s),
        frac  |-> SubSeq(w, Len(w) + s + 1, Len(w))]

\* The decimal 0.d1...dn * 10^decpt divided by 2^q, which is d1...dn * 2^-q
\* * 10^(decpt - n) for q < 0 and d1...dn * 5^q * 10^(decpt - n - q)
\* otherwise.
Quotient(digits, decpt, q) ==
  Shifted(BigToDigits(BigMulPow(BigFromDigits(digits),
                                IF q < 0 THEN 2 ELSE 5,
                                IF q < 0 THEN 0 - q ELSE q)),
          decpt - Len(digits) - (IF q < 0 THEN 0 ELSE q))

\* The decimal divided by 2^q for the largest q from q down that leaves a
\* whole part of 2^52 or more, or for MinExponent: [whole, frac, q].
RECURSIVE Normalise(_, _, _)
RECURSIVE Settle(_, _, _, _)
Normalise(digits, decpt, q) ==
  Settle(digits, decpt, q, Quotient(digits, decpt, q))

Settle(digits, decpt, q, v) ==
  IF q > MinExponent /\ LessInt(v.whole, TwoTo52)
  THEN Normalise(digits, decpt, q - 1)
  ELSE [whole |-> v.whole, frac |-> v.frac, q |-> q]

\* Rounding to the nearest whole number goes up: the digits after the point
\* are one half or more, and when they are exactly one half the whole part
\* is odd.
RoundsUp(v) ==
  /\ v.frac # <<>>
  /\ v.frac[1] >= 5
  /\ (v.frac[1] = 5 /\ {i \in 2..Len(v.frac) : v.frac[i] # 0} = {})
       => IsOdd(v.whole)

\* The double m * 2^q of a normalised quotient: [m, q], m = <<>> for zero.
Rounded(v) ==
  IF ~RoundsUp(v) THEN [m |-> v.whole, q |-> v.q]
  ELSE IF Increment(v.whole) = TwoTo53 THEN [m |-> TwoTo52, q |-> v.q + 1]
  ELSE [m |-> Increment(v.whole), q |-> v.q]

\* The double nearest to 0.d1...dn * 10^decpt, a tie going to the even m.
\* The decimal is below 10^decpt, which is below 2^(decpt * 3.322 + 1).
NearestDouble(digits, decpt) ==
  Rounded(Normalise(digits, decpt,
                    Max({((decpt * 3322) \div 1000) + 1 - (MantissaBits - 1),
                         MinExponent})))

\* n * 2^(q-2) in decimal digits, without the decimal point that for q < 2
\* stands before the last 2 - q of them: n * 5^(2-q) then.
Scale(n, q) ==
  BigToDigits(BigMulPow(BigFromDigits(n), IF q >= 2 THEN 2 ELSE 5,
                        IF q >= 2 THEN q - 2 ELSE 2 - q))

\* The double m4 / 4 * 2^q and the decimals that round to it: x is the
\* double, every decimal between lo and hi rounds to it, the two ends with
\* them when closed; all three without the decimal point, which stands
\* before the last `frac` digits.  The double below is half as far away as
\* the one above when narrow.
Around(m4, q, narrow, closed) ==
  [x      |-> Scale(m4, q),
   lo     |-> Scale(IF narrow THEN Decrement(m4)
                    ELSE Decrement(Decrement(m4)), q),
   hi     |-> Scale(Increment(Increment(m4)), q),
   frac   |-> IF q >= 2 THEN 0 ELSE 2 - q,
   closed |-> closed]

Neighbourhood(m, q) ==
  Around(BigToDigits(BigMulSmall(BigFromDigits(m), 4)), q,
         m = TwoTo52 /\ q > MinExponent, ~IsOdd(m))

\* The decimal c, which is at most the double, rounds to it.
RoundsFromBelow(e, c) ==
  IF e.closed THEN ~LessInt(c, e.lo) ELSE LessInt(e.lo, c)

\* The decimal c, which is above the double, rounds to it.
RoundsFromAbove(e, c) ==
  IF e.closed THEN ~LessInt(e.hi, c) ELSE LessInt(c, e.hi)

\* Of the decimal of the first n digits of the double and the next decimal
\* of n digits, the first is the nearer one to the double, or as near and
\* even.
NearerBelow(x, n) ==
  \/ n >= Len(x)
  \/ x[n + 1] < 5
  \/ x[n + 1] = 5 /\ {i \in (n + 2)..Len(x) : x[i] # 0} = {} /\ x[n] % 2 = 0

\* The float of sign sg with the digits of its repr(): the shortest decimal
\* of n digits or more that rounds to the double, and of these the nearest
\* to it.
RECURSIVE ShortestFrom(_, _, _)
ShortestFrom(sg, e, n) ==
  LET below == SubSeq(e.x, 1, n)
      above == Increment(below)
      pad   == ZeroDigits(Len(e.x) - n)
      okL   == RoundsFromBelow(e, below \o pad)
      okH   == RoundsFromAbove(e, above \o pad)
      decpt == Len(e.x) - e.frac
  IN  IF okL /\ (~okH \/ NearerBelow(e.x, n))
      THEN Fin(sg, StripZeros(below), decpt)
      ELSE IF okH THEN Fin(sg, StripZeros(above), decpt + (Len(above) - n))
      ELSE ShortestFrom(sg, e, n + 1)

\* The float of the double sg * m * 2^q.
Double(sg, bin) ==
  IF bin.m = <<>> THEN Zero(sg)
  ELSE ShortestFrom(sg, Neighbourhood(bin.m, bin.q), 1)

\* The double nearest to sg * 0.d1...dn * 10^decpt, d1 and dn not zero.
Round(sg, digits, decpt) ==
  IF Overflows(digits, decpt) THEN Inf(sg)
  ELSE IF decpt < MinDecpt THEN Zero(sg)
  ELSE IF Len(digits) <= ExactDigits /\ decpt >= MinNormalDecpt
  THEN Fin(sg, digits, decpt)
  ELSE Double(sg, NearestDouble(digits, decpt))

\* The decimal sg * ds * 10^(exp - Len(ds) + point): the digits ds with the
\* decimal point after the first `point` of them, times 10^exp.
Decimal(sg, ds, point, exp) ==
  LET nz == {i \in 1..Len(ds) : ds[i] # 0}
  IN  IF nz = {} THEN Zero(sg)
      ELSE Round(sg, SubSeq(ds, Min(nz), Max(nz)), point - (Min(nz) - 1) + exp)

\* The value of a digit text of at most 6 significant digits, more giving
\* 1000000: an exponent that large is beyond every double either way.
RECURSIVE DigitsVal(_)
DigitsVal(s) ==
  IF s = <<>> THEN 0
  ELSE 10 * DigitsVal(SubSeq(s, 1, Len(s) - 1)) + (s[Len(s)] - 48)

ExponentVal(s) ==
  LET nz == {i \in 1..Len(s) : s[i] # 48}
  IN  IF nz = {} THEN 0
      ELSE IF Len(s) - Min(nz) + 1 > 6 THEN 1000000
      ELSE DigitsVal(SubSeq(s, Min(nz), Len(s)))

\* The mantissa "ddd", "ddd.", "ddd.ddd" or ".ddd": [ok, ds, point].
ParseMantissa(s) ==
  LET p    == Find(s, 46)
      ip   == IF p = 0 THEN s ELSE SubSeq(s, 1, p - 1)
      fp   == IF p = 0 THEN <<>> ELSE SubSeq(s, p + 1, Len(s))
      all  == ip \o fp
  IN  IF AllDigits(ip) /\ AllDigits(fp) /\ Len(all) > 0
      THEN [ok |-> TRUE, ds |-> [i \in 1..Len(all) |-> all[i] - 48],
            point |-> Len(ip)]
      ELSE [ok |-> FALSE, ds |-> <<>>, point |-> 0]

\* The exponent "[+-]ddd", its letter taken off: [ok, x].
ParseExponent(s) ==
  LET neg  == s # <<>> /\ s[1] = 45
      body == IF s # <<>> /\ s[1] \in {43, 45} THEN Tail(s) ELSE s
  IN  IF body # <<>> /\ AllDigits(body)
      THEN [ok |-> TRUE,
            x  |-> IF neg THEN 0 - ExponentVal(body) ELSE ExponentVal(body)]
      ELSE [ok |-> FALSE, x |-> 0]

\* The outcomes of float(): a value, or the exception raised.
Value(f) == [ok |-> TRUE, val |-> f, exc |-> "none"]

Raises(exc) == [ok |-> FALSE, val |-> NaN, exc |-> exc]

\* An unsigned decimal literal.
ParseDecimal(sg, u) ==
  LET s   == DropUnderscores(u)
      p   == Find(Lower(s), 101)
      ms  == IF p = 0 THEN s ELSE SubSeq(s, 1, p - 1)
      man == ParseMantissa(ms)
      ex  == IF p = 0 THEN [ok |-> TRUE, x |-> 0]
             ELSE ParseExponent(SubSeq(s, p + 1, Len(s)))
  IN  IF ~UnderscoresOk(u) \/ ~man.ok \/ ~ex.ok THEN Raises("ValueError")
      ELSE Value(Decimal(sg, man.ds, man.point, ex.x))

InfText == Str("inf")

NanText == Str("nan")

\* float(s) for a str s: the value, or ValueError.
ParseFloat(s) ==
  LET t   == StripAsciiSpace(TransformDecimalAndSpaceToASCII(s))
      neg == t # <<>> /\ t[1] = 45
      sg  == IF neg THEN 0 - 1 ELSE 1
      u   == IF t # <<>> /\ t[1] \in {43, 45} THEN Tail(t) ELSE t
      lu  == Lower(u)
  IN  IF lu = InfText \/ lu = Str("infinity") THEN Value(Inf(sg))
      ELSE IF lu = NanText THEN Value(NaN)
      ELSE ParseDecimal(sg, u)

\* float(n) for the int n of which s is the str(): the nearest double, or
\* OverflowError from 2^1024 - 2^970 on.
FromInt(s) ==
  LET sign == IF s[1] = 45 THEN 1 ELSE 0
      ds   == [i \in 1..(Len(s) - sign) |-> s[i + sign] - 48]
  IN  IF Overflows(ds, Len(ds)) THEN Raises("OverflowError")
      ELSE IF ds = <<0>> THEN Value(Zero(1))
      ELSE Value(Decimal(1 - (2 * sign), ds, Len(ds), 0))

\* str(e) of that OverflowError.
IntTooLarge == Str("int too large to convert to float")

\* The exponent of repr(): a sign and at least two digits.
ExponentText(x) ==
  <<101, IF x < 0 THEN 45 ELSE 43>>
  \o (IF x > 0 - 10 /\ x < 10 THEN <<48>> ELSE <<>>)
  \o IntText(IF x < 0 THEN 0 - x ELSE x)

\* repr() of a finite float without its sign: positional for
\* 1e-4 <= |f| < 1e16 and for zero, with an exponent otherwise.
ReprDigits(ds, decpt) ==
  IF ds = <<>> THEN <<48, 46, 48>>
  ELSE IF decpt <= 0 - 4 \/ decpt > 16
  THEN <<48 + ds[1]>>
       \o (IF Len(ds) > 1 THEN <<46>> \o DigitText(Tail(ds)) ELSE <<>>)
       \o ExponentText(decpt - 1)
  ELSE IF decpt <= 0 THEN <<48, 46>> \o DigitText(ZeroDigits(0 - decpt)) \o DigitText(ds)
  ELSE IF decpt < Len(ds)
  THEN DigitText(SubSeq(ds, 1, decpt)) \o <<46>>
       \o DigitText(SubSeq(ds, decpt + 1, Len(ds)))
  ELSE DigitText(ds \o ZeroDigits(decpt - Len(ds))) \o <<46, 48>>

\* repr(f), which is what str(f) and an f-string's {f} produce.
FormatFloat(f) ==
  LET sign == IF f.sg < 0 THEN <<45>> ELSE <<>>
  IN  CASE f.k = "nan" -> NanText
        [] f.k = "inf" -> sign \o InfText
        [] f.k = "fin" -> sign \o ReprDigits(f.digits, f.decpt)

(***************************************************************************)
(* DataFrame cells.  A cell is [t, f, s]: t is its Python type, f its      *)
(* number (float cells), s its text (str cells, and the str() of an int    *)
(* or a datetime cell).  An empty spreadsheet cell is the float NaN.       *)
(***************************************************************************)
FloatCell(f) == [t |-> "float", f |-> f, s |-> <<>>]

\* The int of sign sg and decimal digits ds, most significant first.
IntCell(sg, ds) ==
  [t |-> "int", f |-> NaN,
   s |-> (IF sg < 0 THEN <<45>> ELSE <<>>) \o DigitText(ds)]

StrCell(s) == [t |-> "str", f |-> NaN, s |-> s]

DatetimeCell(s) == [t |-> "datetime", f |-> NaN, s |-> s]

Empty == FloatCell(NaN)

\* pd.notna(cell)
NotNa(c) == ~(c.t = "float" /\ c.f.k = "nan")

\* str(cell)
PyStr(c) == IF c.t = "float" THEN FormatFloat(c.f) ELSE c.s

\* float(cell): the value, or the exception raised: ValueError for a str
\* that is no number, TypeError for a cell that is neither a str nor a
\* number, OverflowError for an int beyond the doubles.
PyFloat(c) ==
  CASE c.t = "float" -> Value(c.f)
    [] c.t = "int"   -> FromInt(c.s)
    [] c.t = "str"   -> ParseFloat(c.s)
    [] OTHER         -> Raises("TypeError")

\* row.iloc[i], i 0-based.
Iloc(row, i) == row[i + 1]

(***************************************************************************)
(* The tables the model reads.                                             *)
(***************************************************************************)
\* -23.5505, -46.6333, -22.9068 and -43.1729, and -15.797500000000003, a
\* double whose repr() takes 17 significant digits.
LatA == Fin(0 - 1, <<2, 3, 5, 5, 0, 5>>, 2)
LonA == Fin(0 - 1, <<4, 6, 6, 3, 3, 3>>, 2)
LatB == Fin(0 - 1, <<2, 2, 9, 0, 6, 8>>, 2)
LonB == Fin(0 - 1, <<4, 3, 1, 7, 2, 9>>, 2)
LatC == Fin(0 - 1, <<1, 5, 7, 9, 7, 5, 0, 0, 0, 0, 0, 0, 0, 0, 0, 0, 3>>, 2)

\* The text of line breaks, quotes, markup characters and a letter above
\* ASCII: R&D "1" CR LF S a-tilde o <Paulo>
MarkupText ==
  Str("R&D \"1\"") \o <<13, 10>> \o Str("S") \o <<227>> \o Str("o <Paulo>")

\* A text with a line break, a letter above ASCII and then the control
\* character U+0001, which no XML document may hold.
ControlText == Str("x") \o <<10, 233, 1>> \o Str("y")

\* A number text that float() accepts: a vertical tab, a minus sign, a
\* fullwidth digit four, an underscore, "3.5e-6" and a no-break space,
\* which is -4.35e-05.
NumberText == <<11, 45, 65300>> \o Str("_3.5e-6") \o <<160>>

NoDataText == Str("N/D")

TimestampText == Str("2024-01-01 00:00:00")

MkRow(nome, lat, lon, pasta, descricao) ==
  <<Empty, nome, lat, lon, Empty, pasta, Empty, Empty, descricao>>

\* Rows with valid coordinates: a row with every text cell filled, a row with
\* every text cell missing whose coordinates are an int and a str, a row with
\* a number for a name that names the default folder, has an empty
\* description text and a latitude of 17 significant digits, and a row whose
\* description holds a control character.
PlainRows ==
  {MkRow(StrCell(Str("Pt A")), FloatCell(LatA), FloatCell(LonA),
         StrCell(Str("SP")), StrCell(MarkupText)),
   MkRow(Empty, IntCell(1, <<7>>), StrCell(NumberText), Empty, Empty),
   MkRow(IntCell(1, <<1, 2, 0>>), FloatCell(LatC), FloatCell(LonB),
         StrCell(Str("Geral")), StrCell(<<>>)),
   MkRow(StrCell(Str("Pt C")), FloatCell(LatB), FloatCell(LonA),
         StrCell(Str("SP")), StrCell(ControlText))}

\* Rows that differ in the kind of their coordinate cells; the last one
\* has the int 2^1024 - 2^970 for a longitude, which is beyond the doubles.
CoordinateRows ==
  {MkRow(Empty, c[1], c[2], StrCell(Str("RJ")), Empty) :
     c \in {<<Empty, StrCell(InfText)>>,
            <<StrCell(NoDataText), FloatCell(LonB)>>,
            <<FloatCell(LatB), DatetimeCell(TimestampText)>>,
            <<FloatCell(LatB), IntCell(1, OverflowDigits)>>}}

Rows == PlainRows \cup CoordinateRows

\* The tables read have up to MaxRows rows, no two of them alike.
RowSeqs ==
  {rs \in UNION {[1..n -> Rows] : n \in 0..MaxRows} :
     \A i, j \in 1..Len(rs) : rs[i] = rs[j] => i = j}

ColCounts == {MinCols - 1, MinCols}

Truncate(rs, c) == [i \in 1..Len(rs) |-> SubSeq(rs[i], 1, c)]

Tables == {[ncols |-> c, rows |-> Truncate(rs, c)] : c \in ColCounts, rs \in RowSeqs}

NoTable == [ncols |-> 0, rows |-> <<>>]

(***************************************************************************)
(* ElementTree elements: [tag, attrib, text, children].                    *)
(***************************************************************************)
Element(tag, attrib, text, children) ==
  [tag |-> tag, attrib |-> attrib, text |-> text, children |-> children]

NoElement == Element(<<>>, <<>>, <<>>, <<>>)

KmlTag == Str("kml")

DocumentTag == Str("Document")

FolderTag == Str("Folder")

NameTag == Str("name")

PlacemarkTag == Str("Placemark")

DescriptionTag == Str("description")

PointTag == Str("Point")

CoordinatesTag == Str("coordinates")

\* ET.Element("kml", xmlns=...) with its "Document" sub-element (lines 45-46).
NewKml ==
  Element(KmlTag,
          << <<Str("xmlns"), Str("http://www.opengis.net/kml/2.2")>> >>, <<>>,
          <<Element(DocumentTag, <<>>, <<>>, <<>>)>>)

\* The children of the Document element: the Folder elements.
FolderElements(k) == k.children[1].children

\* The text of an element's first "name" child.
NameOf(el) == el.children[1].text

\* A Folder's Placemark elements (its children after the "name" child).
Placemarks(folder) == Tail(folder.children)

(***************************************************************************)
(* The folders dict (insertion-ordered): a sequence of [key, ref], ref     *)
(* being the position of the Folder element under Document.                *)
(***************************************************************************)
\* A lookup that remembers only the folder created last.
HasKeyLastOnly(d, key) == d # <<>> /\ d[Len(d)].key = key

HasKey(d, key) == \E i \in 1..Len(d) : d[i].key = key

GetItem(d, key) == (CHOOSE i \in 1..Len(d) : d[i].key = key)

RECURSIVE Join(_, _)
Join(sep, xs) ==
  IF xs = <<>> THEN <<>>
  ELSE IF Len(xs) = 1 THEN xs[1]
  ELSE xs[1] \o sep \o Join(sep, Tail(xs))

(***************************************************************************)
(* One row of the loop (lines 53-95).                                      *)
(***************************************************************************)
PontoPrefix == Str("Ponto_")

\* The placeholder numbered by the 0-based index.
DefaultNomeZeroBased(index) == PontoPrefix \o IntText(index)

\* f"Ponto_{index+1}" (line 60)
DefaultNome(index) == PontoPrefix \o IntText(index + 1)

\* The folder name of a missing cell taken without the notna test.
DefaultFolderNan == Str("nan")

\* "Geral" (line 63)
DefaultFolder == Str("Geral")

\* Lines 60, 63, 64: the text fields of a row.
Nome(row, index) ==
  IF NotNa(Iloc(row, 1)) THEN PyStr(Iloc(row, 1)) ELSE DefaultNome(index)

FolderName(row) ==
  IF NotNa(Iloc(row, 5)) THEN PyStr(Iloc(row, 5)) ELSE DefaultFolder

Description(row) ==
  IF NotNa(Iloc(row, 8)) THEN PyStr(Iloc(row, 8)) ELSE <<>>

\* Line 70: the exceptions the validation catches.
Caught(r) == r.exc \in {"ValueError", "TypeError"}

\* Lines 68-69, lat and lon being the outcomes of float() on the two cells:
\* the outcome of float(lat) if it raises, else that of float(lon).
FirstRaised(lat, lon) == IF lat.ok THEN lon ELSE lat

\* Lines 67-71: float(lat) or float(lon) raises ValueError or TypeError.
CoordinatesInvalid(lat, lon) == Caught(FirstRaised(lat, lon))

\* Lines 68-69 raise an exception that line 70 does not catch.
CoordinatesRaise(lat, lon) ==
  ~FirstRaised(lat, lon).ok /\ ~Caught(FirstRaised(lat, lon))

\* The two coordinates swapped.
CoordinatesTextLatFirst(lon, lat) ==
  FormatFloat(lat) \o <<44>> \o FormatFloat(lon) \o <<44, 48>>

\* f"{lon},{lat},0" (line 95)
CoordinatesText(lon, lat) ==
  FormatFloat(lon) \o <<44>> \o FormatFloat(lat) \o <<44, 48>>

\* A placemark that always carries a description element.
NewPlacemarkAlwaysDescription(nome, description, lon, lat) ==
  [tag |-> PlacemarkTag, attrib |-> <<>>, text |-> <<>>,
   children |->
     <<[tag |-> NameTag, attrib |-> <<>>, text |-> nome, children |-> <<>>],
       [tag |-> DescriptionTag, attrib |-> <<>>, text |-> description,
        children |-> <<>>],
       [tag |-> PointTag, attrib |-> <<>>, text |-> <<>>,
        children |->
          <<[tag |-> CoordinatesTag, attrib |-> <<>>,
             text |-> FormatFloat(lon) \o <<44>> \o FormatFloat(lat)
                      \o <<44, 48>>,
             children |-> <<>>]>>]>>]

\* Lines 81-95: the Placemark element of a row.
NewPlacemark(nome, description, lon, lat) ==
  Element(PlacemarkTag, <<>>, <<>>,
    <<Element(NameTag, <<>>, nome, <<>>)>>
    \o (IF description # <<>>
        THEN <<Element(DescriptionTag, <<>>, description, <<>>)>>
        ELSE <<>>)
    \o <<Element(PointTag, <<>>, <<>>,
           <<Element(CoordinatesTag, <<>>, CoordinatesText(lon, lat), <<>>)>>)>>)

\* Lines 74-78: the folder element and dict entry, created on first use.
WithFolder(st, folder_name) ==
  IF HasKey(st.folders, folder_name) THEN st
  ELSE [kml |-> [st.kml EXCEPT !.children[1].children =
                    Append(@, Element(FolderTag, <<>>, <<>>,
                                <<Element(NameTag, <<>>, folder_name, <<>>)>>))],
        folders |-> Append(st.folders,
                           [key |-> folder_name,
                            ref |-> Len(FolderElements(st.kml)) + 1])]

\* Line 81 onwards: the placemark appended to the row's folder.
WithPlacemark(st, folder_name, placemark) ==
  LET ref == st.folders[GetItem(st.folders, folder_name)].ref
  IN  [st EXCEPT !.kml.children[1].children[ref].children = Append(@, placemark)]

\* A loop body that creates the folder before it validates the coordinates.
AfterRowFolderFirst(st, row, index, lat, lon) ==
  IF CoordinatesInvalid(lat, lon) THEN WithFolder(st, FolderName(row))
  ELSE WithPlacemark(WithFolder(st, FolderName(row)), FolderName(row),
         NewPlacemark(Nome(row, index), Description(row), lon.val, lat.val))

\* The tree and the dict after the loop body has run for `row` (lines 59-95),
\* lat and lon being the outcomes of float() on its coordinates, neither of
\* them an exception that line 70 does not catch.
AfterRow(st, row, index, lat, lon) ==
  IF CoordinatesInvalid(lat, lon) THEN st
  ELSE WithPlacemark(WithFolder(st, FolderName(row)), FolderName(row),
         NewPlacemark(Nome(row, index), Description(row), lon.val, lat.val))

(***************************************************************************)
(* Serialisation (lines 98-100).  A str holds Unicode scalar values, no    *)
(* lone surrogate.                                                         *)
(***************************************************************************)
\* str.encode('utf-8') of one character.
Utf8Ch(c) ==
  IF c < 128 THEN <<c>>
  ELSE IF c < 2048 THEN <<192 + (c \div 64), 128 + (c % 64)>>
  ELSE IF c < 65536
  THEN <<224 + (c \div 4096), 128 + ((c \div 64) % 64), 128 + (c % 64)>>
  ELSE <<240 + (c \div 262144), 128 + ((c \div 4096) % 64),
         128 + ((c \div 64) % 64), 128 + (c % 64)>>

\* str.encode('utf-8')
Utf8Encode(s) ==
  IF {i \in 1..Len(s) : s[i] >= 128} = {} THEN s
  ELSE Flatten([i \in 1..Len(s) |-> Utf8Ch(s[i])])

AmpText == Str("&amp;")

LtText == Str("&lt;")

GtText == Str("&gt;")

QuotText == Str("&quot;")

\* ElementTree's escaping of character data: & < >
EscapeCdataCh(c) ==
  CASE c = 38 -> AmpText [] c = 60 -> LtText [] c = 62 -> GtText
    [] OTHER -> <<c>>

EscapeCdata(s) == Flatten([i \in 1..Len(s) |-> EscapeCdataCh(s[i])])

\* ElementTree's escaping of an attribute value: & < > " and CR, LF, TAB.
EscapeAttribCh(c) ==
  CASE c = 38 -> AmpText [] c = 60 -> LtText [] c = 62 -> GtText
    [] c = 34 -> QuotText
    [] c = 13 -> <<38, 35, 49, 51, 59>>
    [] c = 10 -> <<38, 35, 49, 48, 59>>
    [] c = 9  -> <<38, 35, 48, 57, 59>>
    [] OTHER -> <<c>>

EscapeAttrib(s) == Flatten([i \in 1..Len(s) |-> EscapeAttribCh(s[i])])

\* minidom's escaping of character data and attribute values: & < " >
WriteDataCh(c) ==
  CASE c = 38 -> AmpText [] c = 60 -> LtText [] c = 34 -> QuotText
    [] c = 62 -> GtText
    [] OTHER -> <<c>>

WriteData(s) == Flatten([i \in 1..Len(s) |-> WriteDataCh(s[i])])

\* The attributes of a start tag, each as: space, name, =", value, ".
RECURSIVE AttribText(_)
AttribText(attrib) ==
  IF attrib = <<>> THEN <<>>
  ELSE <<32>> \o attrib[1][1] \o <<61, 34>>
       \o Utf8Encode(EscapeAttrib(attrib[1][2])) \o <<34>>
       \o AttribText(Tail(attrib))

\* The bytes ElementTree writes for an element and its subtree.
RECURSIVE RoughElement(_)
RECURSIVE RoughChildren(_)
RoughElement(el) ==
  <<60>> \o el.tag \o AttribText(el.attrib)
  \o (IF el.text = <<>> /\ el.children = <<>> THEN <<32, 47, 62>>
      ELSE <<62>> \o Utf8Encode(EscapeCdata(el.text))
           \o RoughChildren(el.children)
           \o <<60, 47>> \o el.tag \o <<62>>)

RoughChildren(els) ==
  IF els = <<>> THEN <<>>
  ELSE RoughElement(els[1]) \o RoughChildren(Tail(els))

\* ET.tostring(kml, 'utf-8') (line 98): bytes, without an XML declaration.
RoughString(k) == RoughElement(k)

\* The positions of the document at which a character begins that XML 1.0
\* forbids: a control character other than TAB, LF and CR, or U+FFFE or
\* U+FFFF (in UTF-8: EF BF BE and EF BF BF).
XmlIllegal(bytes) ==
  {i \in 1..Len(bytes) :
     \/ bytes[i] < 32 /\ bytes[i] \notin {9, 10, 13}
     \/ /\ bytes[i] = 239
        /\ i + 2 <= Len(bytes)
        /\ bytes[i + 1] = 191
        /\ bytes[i + 2] \in {190, 191}}

\* minidom.parseString accepts the document (line 99); expat raises otherwise.
WellFormed(bytes) == XmlIllegal(bytes) = {}

\* The line (1-based) and column (0-based, in characters) of position p, as
\* expat counts them: CR, LF and CR LF each end a line.
Position(bytes, p) ==
  LET breaks == {i \in 1..(p - 1) :
                   \/ bytes[i] = 10
                   \/ bytes[i] = 13 /\ bytes[i + 1] # 10}
      last   == IF breaks = {} THEN 0 ELSE Max(breaks)
  IN  [line   |-> 1 + Cardinality(breaks),
       column |-> Cardinality({i \in (last + 1)..(p - 1) :
                                 bytes[i] < 128 \/ bytes[i] >= 192})]

\* str(e) of the ExpatError for a document that is not well-formed.
ExpatError(bytes) ==
  LET pos == Position(bytes, Min(XmlIllegal(bytes)))
  IN  Str("not well-formed (invalid token): line ") \o IntText(pos.line)
      \o Str(", column ") \o IntText(pos.column)

\* The character data as the parser reports it: CR LF and CR become LF.
NormaliseLineEnds(s) ==
  LET keep == SelectSeq([i \in 1..Len(s) |-> i],
                        LAMBDA i : ~(s[i] = 13 /\ i < Len(s) /\ s[i + 1] = 10))
  IN  [j \in 1..Len(keep) |-> IF s[keep[j]] = 13 THEN 10 ELSE s[keep[j]]]

\* The attributes of a start tag as minidom writes them.
RECURSIVE PrettyAttribText(_)
PrettyAttribText(attrib) ==
  IF attrib = <<>> THEN <<>>
  ELSE <<32>> \o attrib[1][1] \o <<61, 34>> \o WriteData(attrib[1][2])
       \o <<34>> \o PrettyAttribText(Tail(attrib))

\* Element.writexml of minidom for the parsed element, indent being the
\* current indentation: an element without content is closed at once, an
\* element whose only content is text is written on one line, and any other
\* content is written one node per line.
RECURSIVE PrettyElement(_, _)
RECURSIVE PrettyChildren(_, _)
PrettyElement(el, indent) ==
  indent \o <<60>> \o el.tag \o PrettyAttribText(el.attrib)
  \o (IF el.text = <<>> /\ el.children = <<>> THEN <<47, 62, 10>>
      ELSE IF el.children = <<>>
      THEN <<62>> \o WriteData(NormaliseLineEnds(el.text))
           \o <<60, 47>> \o el.tag \o <<62, 10>>
      ELSE <<62, 10>>
           \o (IF el.text = <<>> THEN <<>>
               ELSE indent \o <<32, 32>>
                    \o WriteData(NormaliseLineEnds(el.text)) \o <<10>>)
           \o PrettyChildren(el.children, indent \o <<32, 32>>)
           \o indent \o <<60, 47>> \o el.tag \o <<62, 10>>)

PrettyChildren(els, indent) ==
  IF els = <<>> THEN <<>>
  ELSE PrettyElement(els[1], indent) \o PrettyChildren(Tail(els), indent)

\* parsed_string.toprettyxml(indent="  ") (line 100)
PrettyXml(k) ==
  Str("<?xml version=\"1.0\" ?>") \o <<10>> \o PrettyElement(k, <<>>)

\* str.replace(old, new)
RECURSIVE Replace(_, _, _)
Replace(s, old, new) ==
  IF old = <<>> THEN new \o Flatten([i \in 1..Len(s) |-> <<s[i]>> \o new])
  ELSE IF Len(s) < Len(old) THEN s
  ELSE IF SubSeq(s, 1, Len(old)) = old
  THEN new \o Replace(SubSeq(s, Len(old) + 1, Len(s)), old, new)
  ELSE <<s[1]>> \o Replace(Tail(s), old, new)

(***************************************************************************)
(* One run of main(): the page without a file, or with the uploaded file   *)
(* and the handler of the "Gerar Arquivo KML" button (lines 25-163).       *)
(***************************************************************************)
VARIABLES
  pc,            \* where the handler stands
  df,            \* the DataFrame read from the uploaded file
  total_rows,    \* len(df)
  index,         \* the rows the loop is done with: the 0-based index of
                 \* the next row
  progress_bar,  \* [state, num, den]: the bar and its last value num/den
  status_text,   \* [state, text]
  kml,           \* the root element, NoElement before line 45
  folders,       \* the folders dict
  pretty_xml,    \* the serialised document (a str), empty before line 100
  tmp_files,     \* the contents (bytes) of the temporary files on disk
  st_success,    \* the st.success messages shown
  st_error,      \* the st.error messages shown
  st_download,   \* the download buttons offered: [label, data, file_name, mime]
  st_info,       \* the st.info messages shown
  st_expander    \* the expanders shown: [label, markdown]

vars == <<pc, df, total_rows, index, progress_bar, status_text, kml, folders,
          pretty_xml, tmp_files, st_success, st_error, st_download, st_info,
          st_expander>>

\* uploaded_file.name
UploadedName == Str("pontos.xlsx")

NoWidget == [state |-> "none", num |-> 0, den |-> 1]

NoText == [state |-> "none", text |-> <<>>]

\* Line 27: the message that names the uploaded file.
SelectedMessage == Str("Arquivo selecionado: ") \o UploadedName

\* Line 37: the message of the column check; it begins with U+274C.
ColumnsError ==
  <<10060>> \o Str(" O arquivo Excel n") \o <<227>>
  \o Str("o tem colunas suficientes! Precisa ter pelo menos 9 colunas.")

ProcessingPrefix ==
  <<10060>> \o Str(" Ocorreu um erro ao processar o arquivo:") \o <<10>>

\* Line 138: the message of the catch-all handler, with str(e).
ProcessingError(cause) == ProcessingPrefix \o cause

\* What pd.read_excel raises on a file that is no workbook.
BadZipFile == Str("File is not a zip file")

\* What the write of line 104 raises on a full disk.
DiskFull == Str("[Errno 28] No space left on device")

\* Line 57: f"Processando linha {index + 1} de {total_rows}..."
StatusMessage(n, total) ==
  Str("Processando linha ") \o IntText(n) \o Str(" de ") \o IntText(total)
  \o Str("...")

\* Line 112: the message of success; it begins with U+2705.
SuccessMessage == <<9989>> \o Str(" Arquivo KML gerado com sucesso!")

\* Line 119: the label of the download button; it begins with U+1F4E5.
DownloadLabel == <<128229>> \o Str(" Download do Arquivo KML")

KmlMime == Str("application/vnd.google-earth.kml+xml")

XlsxSuffix == Str(".xlsx")

KmlSuffix == Str(".kml")

\* The line break and the 16 spaces that begin every line of the statistics.
InfoLine == <<10>> \o Str("                ")

\* Lines 130-135: the statistics; the heading has U+1F4CA and i-acute.
InfoMessage(total, d) ==
  InfoLine \o Str("**") \o <<128202>> \o Str(" Estat") \o <<237>>
  \o Str("sticas:**") \o InfoLine \o Str("- Total de pontos processados: ")
  \o IntText(total) \o InfoLine \o Str("- Pastas criadas: ")
  \o IntText(Len(d)) \o InfoLine \o Str("- Nomes das pastas: ")
  \o Join(Str(", "), [i \in 1..Len(d) |-> d[i].key]) \o InfoLine

\* Lines 142-152: the instructions shown while no file is uploaded.
Instructions ==
  <<10>> \o Str("        **") \o <<128203>> \o Str(" Instru") \o <<231, 245>>
  \o Str("es:**") \o <<10>> \o Str("        1. Fa") \o <<231>>
  \o Str("a upload de um arquivo Excel (.xlsx)") \o <<10>>
  \o Str("        2. Certifique-se de que o arquivo contenha")
  \o Str(" as seguintes colunas:") \o <<10>>
  \o Str("           - **Coluna B**: Nome do ponto") \o <<10>>
  \o Str("           - **Coluna C**: Latitude") \o <<10>>
  \o Str("           - **Coluna D**: Longitude  ") \o <<10>>
  \o Str("           - **Coluna F**: Nome da pasta (para org") \o Str("aniza")
  \o <<231, 227>> \o Str("o)") \o <<10>>
  \o Str("           - **Coluna I**: Descri") \o <<231, 227>>
  \o Str("o do ponto") \o <<10>>
  \o Str("        3. Clique em \"Gerar Arquivo KML\" para conv")
  \o Str("erter") \o <<10>> \o Str("        ")

\* Line 155: the label of the expander; it begins with U+1F4DD.
ExampleLabel ==
  <<128221>> \o Str(" Exemplo de estrutura do Excel")

\* Lines 156-163: the example table inside the expander.
ExampleTable ==
  <<10>> \o Str("            | A | B | C | D | E | F | G | H | I |") \o <<10>>
  \o Str("            |---|---|---|---|---|---|---|---|---|") \o <<10>>
  \o Str("            | ... | **Nome** | **Latitude** | **Lo")
  \o Str("ngitude** | ... | **Pasta** | ... | ... | **Descri") \o <<231, 227>>
  \o Str("o** |") \o <<10>>
  \o Str("            | 1 | Ponto 1 | -23.5505 | -46.6333 | ")
  \o Str("... | S") \o <<227>> \o Str("o Paulo | ... | ... | Descri")
  \o <<231, 227>> \o Str("o do ponto 1 |") \o <<10>>
  \o Str("            | 2 | Ponto 2 | -22.9068 | -43.1729 | ")
  \o Str("... | Rio de Janeiro | ... | ... | Descri") \o <<231, 227>>
  \o Str("o do ponto 2 |") \o <<10>>
  \o Str("            | 3 | Ponto 3 | -15.7975 | -47.8919 | ")
  \o Str("... | Bras") \o <<237>> \o Str("lia | ... | ... | Descri")
  \o <<231, 227>> \o Str("o do ponto 3 |") \o <<10>> \o Str("            ")

\* The block sizes of the file systems that hold the temporary directory: a
\* write that finds the disk full leaves whole blocks of the file.
BlockSizes == {512, 1024, 4096}

Init ==
  /\ pc = "start"
  /\ df = NoTable
  /\ total_rows = 0
  /\ index = 0
  /\ progress_bar = NoWidget
  /\ status_text = NoText
  /\ kml = NoElement
  /\ folders = <<>>
  /\ pretty_xml = <<>>
  /\ tmp_files = {}
  /\ st_success = <<>>
  /\ st_error = <<>>
  /\ st_download = <<>>
  /\ st_info = <<>>
  /\ st_expander = <<>>

\* Lines 140-163: no file is uploaded; the instructions and the example.
NoFile ==
  /\ pc = "start"
  /\ st_info' = Append(st_info, Instructions)
  /\ st_expander' =
       Append(st_expander, [label |-> ExampleLabel, markdown |-> ExampleTable])
  /\ pc' = "no_file"
  /\ UNCHANGED <<df, total_rows, index, progress_bar, status_text, kml,
                 folders, pretty_xml, tmp_files, st_success, st_error,
                 st_download>>

\* Lines 25-27: a file is uploaded; its name is shown.  The handler of the
\* button runs from here when the button was pressed.
FileSelected ==
  /\ pc = "start"
  /\ st_success' = Append(st_success, SelectedMessage)
  /\ pc' = "ready"
  /\ UNCHANGED <<df, total_rows, index, progress_bar, status_text, kml,
                 folders, pretty_xml, tmp_files, st_error, st_download,
                 st_info, st_expander>>

\* A column check that is off by one.
TooFewColumnsOffByOne(t) == t.ncols < MinCols - 1

\* Line 36
TooFewColumns(t) == t.ncols < MinCols

\* Lines 33-50: the table is read and checked, the widgets and the tree made.
ReadExcel ==
  /\ pc = "ready"
  /\ \E t \in Tables :
       /\ df' = t
       /\ IF TooFewColumns(t)
          THEN /\ st_error' = Append(st_error, ColumnsError)
               /\ pc' = "returned"
               /\ UNCHANGED <<total_rows, index, progress_bar, status_text,
                              kml, folders>>
          ELSE /\ progress_bar' = [state |-> "shown", num |-> 0, den |-> 1]
               /\ status_text' = [state |-> "empty", text |-> <<>>]
               /\ kml' = NewKml
               /\ folders' = <<>>
               /\ total_rows' = Len(t.rows)
               /\ index' = 0
               /\ pc' = "loop"
               /\ UNCHANGED st_error
  /\ UNCHANGED <<pretty_xml, tmp_files, st_success, st_download, st_info,
                 st_expander>>

\* Line 33 raising: the catch-all handler of lines 137-138 reports it.
ReadExcelFails ==
  /\ pc = "ready"
  /\ st_error' = Append(st_error, ProcessingError(BadZipFile))
  /\ pc' = "failed_read"
  /\ UNCHANGED <<df, total_rows, index, progress_bar, status_text, kml,
                 folders, pretty_xml, tmp_files, st_success, st_download,
                 st_info, st_expander>>

\* Lines 53-69: an iteration of the loop in which float() raises an
\* exception that line 70 does not catch: the progress of the row is shown
\* and the catch-all handler of lines 137-138 reports the exception.
ProcessRowRaises ==
  /\ pc = "loop"
  /\ index < total_rows
  /\ CoordinatesRaise(PyFloat(Iloc(df.rows[index + 1], 2)),
                      PyFloat(Iloc(df.rows[index + 1], 3)))
  /\ progress_bar' = [state |-> "shown", num |-> index + 1, den |-> total_rows]
  /\ status_text' =
       [state |-> "text", text |-> StatusMessage(index + 1, total_rows)]
  /\ st_error' = Append(st_error, ProcessingError(IntTooLarge))
  /\ pc' = "failed_row"
  /\ UNCHANGED <<df, total_rows, index, kml, folders, pretty_xml, tmp_files,
                 st_success, st_download, st_info, st_expander>>

\* The tree and the dict become those of st.
Build(st) == kml' = st.kml /\ folders' = st.folders

\* Lines 53-95: one iteration of the loop.
ProcessRow ==
  /\ pc = "loop"
  /\ index < total_rows
  /\ ~CoordinatesRaise(PyFloat(Iloc(df.rows[index + 1], 2)),
                       PyFloat(Iloc(df.rows[index + 1], 3)))
  /\ progress_bar' = [state |-> "shown", num |-> index + 1, den |-> total_rows]
  /\ status_text' =
       [state |-> "text", text |-> StatusMessage(index + 1, total_rows)]
  /\ Build(AfterRow([kml |-> kml, folders |-> folders], df.rows[index + 1],
                    index, PyFloat(Iloc(df.rows[index + 1], 2)),
                    PyFloat(Iloc(df.rows[index + 1], 3))))
  /\ index' = index + 1
  /\ UNCHANGED <<pc, df, total_rows, pretty_xml, tmp_files, st_success,
                 st_error, st_download, st_info, st_expander>>

\* Lines 98-100, the tree being well-formed XML.
Serialize ==
  /\ pc = "loop"
  /\ index = total_rows
  /\ WellFormed(RoughString(kml))
  /\ pretty_xml' = PrettyXml(kml)
  /\ pc' = "serialized"
  /\ UNCHANGED <<df, total_rows, index, progress_bar, status_text, kml,
                 folders, tmp_files, st_success, st_error, st_download,
                 st_info, st_expander>>

\* Line 99 raising ExpatError: the catch-all handler reports it.
SerializeFails ==
  /\ pc = "loop"
  /\ index = total_rows
  /\ ~WellFormed(RoughString(kml))
  /\ st_error' = Append(st_error, ProcessingError(ExpatError(RoughString(kml))))
  /\ pc' = "failed_serialize"
  /\ UNCHANGED <<df, total_rows, index, progress_bar, status_text, kml,
                 folders, pretty_xml, tmp_files, st_success, st_download,
                 st_info, st_expander>>

\* Lines 103-135: the encoded document is written to the temporary file,
\* read back and offered for download, the file is removed and the
\* statistics are shown.
Deliver ==
  /\ pc = "serialized"
  /\ progress_bar' = [progress_bar EXCEPT !.state = "empty"]
  /\ status_text' = [state |-> "empty", text |-> <<>>]
  /\ st_success' = Append(st_success, SuccessMessage)
  /\ st_download' =
       Append(st_download,
              [label     |-> DownloadLabel,
               data      |-> Utf8Encode(pretty_xml),
               file_name |-> Replace(UploadedName, XlsxSuffix, KmlSuffix),
               mime      |-> KmlMime])
  /\ tmp_files' = {}
  /\ st_info' = Append(st_info, InfoMessage(total_rows, folders))
  /\ pc' = "done"
  /\ UNCHANGED <<df, total_rows, index, kml, folders, pretty_xml, st_error,
                 st_expander>>

\* Lines 103-104 raising OSError on a full disk: the file created with
\* delete=False stays, with as many whole blocks of the encoded document in
\* it as the disk had room for, which is less than the document.
WriteFails ==
  /\ pc = "serialized"
  /\ \E b \in BlockSizes :
       \E n \in 0..((Len(Utf8Encode(pretty_xml)) - 1) \div b) :
         tmp_files' = {SubSeq(Utf8Encode(pretty_xml), 1, n * b)}
  /\ st_error' = Append(st_error, ProcessingError(DiskFull))
  /\ pc' = "failed_write"
  /\ UNCHANGED <<df, total_rows, index, progress_bar, status_text, kml,
                 folders, pretty_xml, st_success, st_download, st_info,
                 st_expander>>

Next ==
  \/ NoFile
  \/ FileSelected
  \/ ReadExcel
  \/ ReadExcelFails
  \/ ProcessRow
  \/ ProcessRowRaises
  \/ Serialize
  \/ SerializeFails
  \/ Deliver
  \/ WriteFails

Spec == Init /\ [][Next]_vars

(***************************************************************************)
(* Observations of a state, in the terms of the input table.               *)
(***************************************************************************)
\* The Folder elements of the document (none before the tree exists).
Folders == IF kml = NoElement THEN <<>> ELSE FolderElements(kml)

FolderNames == [a \in 1..Len(Folders) |-> NameOf(Folders[a])]

RECURSIVE CountPlacemarks(_)
CountPlacemarks(fs) ==
  IF fs = <<>> THEN 0 ELSE Len(Placemarks(fs[1])) + CountPlacemarks(Tail(fs))

TotalPlacemarks == CountPlacemarks(Folders)

\* The cells of input row i (1-based), by spreadsheet column.
NameCell(i) == df.rows[i][2]

LatCell(i) == df.rows[i][3]

LonCell(i) == df.rows[i][4]

FolderCell(i) == df.rows[i][6]

DescriptionCell(i) == df.rows[i][9]

\* float() of the cell raises an exception that line 70 catches: ValueError
\* or TypeError.
Unparsable(c) == PyFloat(c).exc \in {"ValueError", "TypeError"}

\* The code skips input row i (line 71): float() of its latitude raises one
\* of these, or its latitude is a number and float() of its longitude
\* raises one of them.
Skipped(i) ==
  \/ Unparsable(LatCell(i))
  \/ PyFloat(LatCell(i)).ok /\ Unparsable(LonCell(i))

\* The cell holds a finite decimal number.
FiniteNumber(c) == PyFloat(c).ok /\ IsFinite(PyFloat(c).val)

\* The latitude or the longitude of input row i does not parse as a finite
\* decimal number.
UnparsableRow(i) ==
  ~FiniteNumber(LatCell(i)) \/ ~FiniteNumber(LonCell(i))

\* The folder input row i is destined for, `default` standing for a missing cell.
FolderOf(i, default) ==
  IF NotNa(FolderCell(i)) THEN PyStr(FolderCell(i)) ELSE default

\* The rows processed so far that were kept and are destined for folder `name`,
\* in input order.
KeptOf(name) ==
  LET Test(i) == ~Skipped(i) /\ FolderOf(i, DefaultFolder) = name
  IN  SelectSeq([i \in 1..index |-> i], Test)

\* Every folder holds as many placemarks as kept rows are destined for it.
PairingComplete ==
  \A a \in 1..Len(Folders) :
    Len(Placemarks(Folders[a])) = Len(KeptOf(FolderNames[a]))

\* The emitted placemarks, each with the input row it stands for: the j-th
\* placemark of a folder with the j-th kept row destined for that folder.
Emitted ==
  UNION {LET pms  == Placemarks(Folders[a])
             kept == KeptOf(FolderNames[a])
         IN  {[pm |-> pms[j], row |-> kept[j]] : j \in 1..Len(pms)} :
         a \in 1..Len(Folders)}

TagsOf(el) == [c \in 1..Len(el.children) |-> el.children[c].tag]

\* The text of the coordinates element of a placemark.
CoordinatesOf(pm) == pm.children[Len(pm.children)].children[1].text

RECURSIVE Split(_, _)
Split(s, c) ==
  LET p == Find(s, c)
  IN  IF p = 0 THEN <<s>>
      ELSE <<SubSeq(s, 1, p - 1)>> \o Split(SubSeq(s, p + 1, Len(s)), c)

\* The number of places of s at which pat occurs.
CountOccurrences(s, pat) ==
  Cardinality({i \in 1..(Len(s) - Len(pat) + 1) :
                 SubSeq(s, i, i + Len(pat) - 1) = pat})

(***************************************************************************)
(* Properties.                                                             *)
(***************************************************************************)

\* C1, as stated: once the tree exists, the number of Placemarks over all
\* Folders is the number of rows processed minus the number of those whose
\* latitude or longitude does not parse as a finite decimal number, and every
\* Folder holds exactly one Placemark per row with parsable coordinates
\* destined for it, a row with an unparsable coordinate contributing none.
C1_PlacemarkCount ==
  kml # NoElement =>
    /\ TotalPlacemarks
         = index - Cardinality({i \in 1..index : UnparsableRow(i)})
    /\ \A a \in 1..Len(Folders) :
         Len(Placemarks(Folders[a]))
           = Cardinality({i \in 1..index :
                            /\ ~UnparsableRow(i)
                            /\ FolderOf(i, DefaultFolder) = FolderNames[a]})

NamesUnique ==
  \A a, b \in 1..Len(Folders) : FolderNames[a] = FolderNames[b] => a = b

\* The placemarks of every folder are those of its kept rows, in input order.
WithinFolderOrder ==
  /\ PairingComplete
  /\ \A e \in Emitted : NameOf(e.pm) = Nome(df.rows[e.row], e.row - 1)

\* The first row among `rows` that is destined for folder `name`.
FirstRow(rows, name) ==
  LET S == {i \in rows : FolderOf(i, DefaultFolder) = name}
  IN  IF S = {} THEN 0 ELSE CHOOSE i \in S : \A j \in S : i <= j

\* Folder order is the order of first appearance among `rows`.
FolderOrderBy(rows) ==
  /\ \A a \in 1..Len(Folders) : FirstRow(rows, FolderNames[a]) > 0
  /\ \A a, b \in 1..Len(Folders) :
       a < b => FirstRow(rows, FolderNames[a]) < FirstRow(rows, FolderNames[b])

\* C2, as stated: folder names are unique, Folder order is the order of first
\* appearance of each name among all input rows (skipped ones included), and
\* within a Folder the Placemarks are in input row order.
C2_FirstAppearanceInInput ==
  /\ NamesUnique
  /\ FolderOrderBy(1..index)
  /\ WithinFolderOrder

\* C2, amended: folder names are unique, the Folders are exactly the names of
\* the kept rows in the order of their first appearance among the kept rows,
\* and within a Folder the Placemarks are in input row order.
C2_FirstAppearanceAmongKept ==
  /\ NamesUnique
  /\ {FolderNames[a] : a \in 1..Len(Folders)}
       = {FolderOf(i, DefaultFolder) : i \in {j \in 1..index : ~Skipped(j)}}
  /\ FolderOrderBy({i \in 1..index : ~Skipped(i)})
  /\ WithinFolderOrder

\* A name first appears on a skipped row, another folder is created, and
\* the first name then comes on a kept row.
C2_Witness ==
  /\ index = 3
  /\ Skipped(1) /\ ~Skipped(2) /\ ~Skipped(3)
  /\ FolderOf(1, DefaultFolder) = FolderOf(3, DefaultFolder)
  /\ FolderOf(2, DefaultFolder) # FolderOf(3, DefaultFolder)
  /\ Len(Folders) = 2
  /\ FolderNames[2] = FolderOf(1, DefaultFolder)

\* The text parses as a finite decimal number.
FiniteText(t) == ParseFloat(t).ok /\ IsFinite(ParseFloat(t).val)

\* C3, as stated: a row yields a Placemark only if its latitude and its
\* longitude are finite numbers, so the Placemarks are as many as the rows
\* with two finite coordinates and every coordinates text carries a finite
\* longitude and a finite latitude.
C3_OnlyFiniteCoordinates ==
  kml # NoElement =>
    /\ TotalPlacemarks =
         Cardinality({i \in 1..index :
                        FiniteNumber(LatCell(i)) /\ FiniteNumber(LonCell(i))})
    /\ \A a \in 1..Len(Folders) :
         \A j \in 1..Len(Placemarks(Folders[a])) :
           LET parts == Split(CoordinatesOf(Placemarks(Folders[a])[j]), 44)
           IN  Len(parts) = 3 /\ FiniteText(parts[1]) /\ FiniteText(parts[2])

AllFoldersNonEmpty ==
  \A a \in 1..Len(Folders) : Len(Placemarks(Folders[a])) >= 1

\* C4: the iteration of a skipped row leaves the tree and the folders dict as
\* they were, and after every step every Folder holds at least one Placemark.
C4_SkipLeavesNoTrace ==
  [][/\ (pc = "loop" /\ index < total_rows /\ Skipped(index + 1))
          => (kml' = kml /\ folders' = folders)
     /\ AllFoldersNonEmpty']_vars

\* A kept row made a folder, and a row naming a folder not seen before was
\* then skipped.
C4_Witness ==
  /\ index = 2
  /\ ~Skipped(1) /\ Skipped(2)
  /\ FolderOf(2, DefaultFolder) # FolderOf(1, DefaultFolder)
  /\ FolderNames = <<FolderOf(1, DefaultFolder)>>
  /\ Len(folders) = 1

\* C5: a table of fewer than 9 columns ends the handler at once: the columns
\* error is shown exactly once, there is no tree, no progress, no row was
\* processed, no file, no download and no statistics, and no step follows.
C5_TooFewColumnsAborts ==
  (df # NoTable /\ df.ncols < 9) =>
    /\ pc = "returned"
    /\ st_error = <<ColumnsError>>
    /\ kml = NoElement /\ folders = <<>>
    /\ progress_bar = NoWidget /\ status_text = NoText
    /\ index = 0
    /\ pretty_xml = <<>> /\ tmp_files = {}
    /\ st_download = <<>> /\ st_info = <<>>
    /\ ~ENABLED Next

\* A table of 8 columns and three rows was read.
C5_Witness ==
  /\ df.ncols = 8
  /\ Len(df.rows) = 3
  /\ pc = "returned"

PointPrefix == Str("Point_")

Ponto3 == Str("Ponto_3")

\* The name of the placemark of row i, `prefix` being that of the placeholder.
ExpectedName(i, prefix) ==
  IF NotNa(NameCell(i)) THEN PyStr(NameCell(i)) ELSE prefix \o IntText(i)

PlaceholderIs(prefix) ==
  /\ PairingComplete
  /\ \A e \in Emitted : NameOf(e.pm) = ExpectedName(e.row, prefix)

\* C6, as stated: the Placemark of a kept row without a name is named
\* Point_<n>, n the 1-based position of the row among all input rows; with a
\* name cell, the Placemark is named by the cell's text.
C6_PlaceholderPoint == PlaceholderIs(PointPrefix)

\* C6, amended: the placeholder is Ponto_<n>.
C6_PlaceholderPonto == PlaceholderIs(PontoPrefix)

\* The third row has no name and comes after a skipped row; it is Ponto_3.
C6_Witness ==
  /\ index = 3
  /\ Skipped(2) /\ ~Skipped(3)
  /\ ~NotNa(NameCell(3))
  /\ \E e \in Emitted : e.row = 3 /\ NameOf(e.pm) = Ponto3

General == Str("General")

Geral == Str("Geral")

\* The kept rows whose folder cell is missing or is the text `name`.
DefaultOrExplicit(name) ==
  {i \in 1..index :
     ~Skipped(i) /\ (~NotNa(FolderCell(i)) \/ PyStr(FolderCell(i)) = name)}

DefaultFolderIs(name) ==
  LET G == {a \in 1..Len(Folders) : FolderNames[a] = name}
  IN  DefaultOrExplicit(name) # {} =>
        /\ Cardinality(G) = 1
        /\ \A a \in G :
             Len(Placemarks(Folders[a])) = Cardinality(DefaultOrExplicit(name))

\* C7, as stated: the kept rows without a folder cell, and those that name
\* the folder General, are all in one single Folder named General.
C7_DefaultGeneral == DefaultFolderIs(General)

\* C7, amended: the default folder is named Geral.
C7_DefaultGeral == DefaultFolderIs(Geral)

\* A row without a folder cell and a row naming Geral share the one Folder.
C7_Witness ==
  /\ index = 2
  /\ ~Skipped(1) /\ ~Skipped(2)
  /\ ~NotNa(FolderCell(1))
  /\ NotNa(FolderCell(2)) /\ PyStr(FolderCell(2)) = Geral
  /\ Len(Folders) = 1
  /\ Len(Placemarks(Folders[1])) = 2

\* The description cell of row i is not empty.
HasDescription(i) ==
  NotNa(DescriptionCell(i)) /\ PyStr(DescriptionCell(i)) # <<>>

\* C8: a Placemark has a description child exactly when the row's description
\* cell is not empty; the child then holds the cell's text and stands between
\* the name child and the Point child.
C8_DescriptionIffNonEmpty ==
  /\ PairingComplete
  /\ \A e \in Emitted :
       IF HasDescription(e.row)
       THEN /\ TagsOf(e.pm) = <<NameTag, DescriptionTag, PointTag>>
            /\ e.pm.children[2].text = PyStr(DescriptionCell(e.row))
       ELSE TagsOf(e.pm) = <<NameTag, PointTag>>

\* Placemarks for a described row, for a row with an empty description text
\* and for a row without a description cell.
C8_Witness ==
  /\ index = 3
  /\ \E e \in Emitted : HasDescription(e.row) /\ Len(e.pm.children) = 3
  /\ \E e \in Emitted :
       NotNa(DescriptionCell(e.row)) /\ ~HasDescription(e.row)
       /\ Len(e.pm.children) = 2
  /\ \E e \in Emitted : ~NotNa(DescriptionCell(e.row))

\* C9: the coordinates text of a Placemark is three comma-separated fields:
\* the row's longitude, then the row's latitude, then 0.
C9_LonLatZero ==
  /\ PairingComplete
  /\ \A e \in Emitted :
       LET parts == Split(CoordinatesOf(e.pm), 44)
       IN  /\ Len(parts) = 3
           /\ ParseFloat(parts[1]) = PyFloat(LonCell(e.row))
           /\ ParseFloat(parts[2]) = PyFloat(LatCell(e.row))
           /\ parts[3] = <<48>>

PointA == Str("-46.6333,-23.5505,0")

PointSmall == Str("-4.35e-05,7.0,0")

PointLong == Str("-43.1729,-15.797500000000003,0")

\* The point of latitude -23.5505 and longitude -46.6333, a point whose
\* latitude prints with 17 significant digits, and a point whose coordinates
\* come from an int cell and a str cell.
C9_Witness ==
  /\ \E e \in Emitted : CoordinatesOf(e.pm) = PointA
  /\ \E e \in Emitted : CoordinatesOf(e.pm) = PointLong
  /\ \E e \in Emitted :
       /\ LatCell(e.row).t = "int" /\ LonCell(e.row).t = "str"
       /\ CoordinatesOf(e.pm) = PointSmall

PlacemarkOpen == Str("<Placemark>")

KmlClose == Str("</kml>") \o <<10>>

\* The statistics shown: the st.info messages of the handler.
Statistics == SelectSeq(st_info, LAMBDA m : m # Instructions)

\* C10, as stated: a download is offered only when every row of the table
\* was processed and the whole tree was serialised, and then once, complete
\* and without an error; when a step of the conversion fails (reading the
\* table, building the tree, serialising it, writing the document) the error
\* is shown once with its cause and there is no download, no temporary file
\* and no statistics.
C10_AllOrNothing ==
  /\ st_download # <<>> =>
       /\ pc = "done"
       /\ Len(st_download) = 1
       /\ index = Len(df.rows)
       /\ st_error = <<>>
       /\ LET data == st_download[1].data
          IN  /\ CountOccurrences(data, PlacemarkOpen)
                   = Cardinality({i \in 1..Len(df.rows) : ~Skipped(i)})
              /\ CountOccurrences(data, KmlClose) = 1
              /\ SubSeq(data, Len(data) - 6, Len(data)) = KmlClose
  /\ Statistics # <<>> => st_download # <<>>
  /\ pc \in {"failed_read", "failed_row", "failed_serialize", "failed_write"} =>
       /\ Len(st_error) = 1
       /\ Len(st_error[1]) > Len(ProcessingPrefix)
       /\ SubSeq(st_error[1], 1, Len(ProcessingPrefix)) = ProcessingPrefix
       /\ st_download = <<>>
       /\ tmp_files = {}
       /\ st_info = <<>>

====
